---- MODULE Spec2Model ----
(***************************************************************************)
(* A model of the Cassandra-backed APDB engine (ApdbCassandra): the        *)
(* partitioner, the ingest pipeline of store(), the query planner and the  *)
(* result assembly of getDiaObjects / getDiaSources / getDiaForcedSources. *)
(*                                                                         *)
(* Time.  A time (an lsst.daf.base.DateTime, or an MJD float such as       *)
(* midPointTai) is represented by the integer number of seconds between    *)
(* partition_zero_epoch (1970-01-01 TAI) and that instant, so that         *)
(* "mjd - epoch_mjd" days is secs / SECONDS_IN_DAY.  Fractions of a second *)
(* and the TAI/UTC offset are not represented.                             *)
(*                                                                         *)
(* Database.  The keyspace is a bag of cells [table, row]: table is the    *)
(* physical table name (a string), row a function from column names to    *)
(* integers.  A column that holds null is absent from the row.  Physical   *)
(* tables are taken to exist; a table without cells answers a query with   *)
(* no rows.                                                                *)
(***************************************************************************)
EXTENDS Integers, Sequences, FiniteSets, Bags, TLC

VARIABLES
    cfg,        \* the ApdbCassandraConfig the instance was constructed with
    db,         \* the keyspace: a bag of [table, row] cells
    pc,         \* position of the store() call in flight, "idle" when none
    call,       \* arguments of the store() call in flight (or of the last one)
    outcome,    \* how the last finished store() ended
    driver,     \* driver calls (prepare / execute) made by the current store()
    snap,       \* the keyspace when the current store() was entered
    prev,       \* call, snap and outcome of the store() before the current one
    nstores,    \* number of store() calls entered so far
    ret,        \* the value returned by the read that has just run, if any
    last,       \* history: diaObjectId -> position and visit time of the most
                \* recent store whose DiaObjectLast insert was executed
    versions,   \* history: bag of (diaObjectId, visit time) of the DiaObject
                \* inserts that were executed
    created,    \* names of the tables that exist in the keyspace
    exec        \* the concurrent execution of the statements of a read

vars == <<cfg, db, pc, call, outcome, driver, snap, prev, nstores, ret, last, versions, created, exec>>

----------------------------------------------------------------------------
(* Bounds of the model *)

MaxStores == 2

\* Calls of store() in one behaviour of the replay specification
MaxReplayStores == 3

\* Largest number of statements of one read in the executor specification
MaxPlan == 4

\* read_concurrency of the model's configurations (500 by default)
ReadConcurrency == 2

----------------------------------------------------------------------------
(* Program constants *)

SECONDS_IN_DAY == 86400

DaysPerMonth == 30

MillisPerSecond == 1000

DefaultTimePartitionDays == 30

FinestEnvelope == 1000000

DefaultMaxRanges == 64

\* ApdbCassandraConfig.time_partition_start, "2018-12-01T00:00:00", in days
\* since 1970-01-01
DefaultPartitionStartDay == 17866

\* ApdbCassandraConfig.time_partition_end, "2030-01-01T00:00:00", in days
DefaultPartitionEndDay == 21915

\* ApdbCassandraSchema.makeSchema: datetime(2020, 1, 1) in days since 1970-01-01
SchemaStartDay == 18262

\* ApdbCassandraSchema.makeSchema: 30-day units before and after its start time
SchemaUnitsBefore == 13

SchemaUnitsAfter == 24

----------------------------------------------------------------------------
(* Small helpers *)

\* Python int(): truncation towards zero of n / d, for d > 0
Trunc(n, d) == IF n >= 0 THEN n \div d ELSE -((-n) \div d)

SetCol(r, c, v) == [k \in (DOMAIN r) \cup {c} |-> IF k = c THEN v ELSE r[k]]

Project(r, cols) == [k \in (DOMAIN r) \cap cols |-> r[k]]

BagOfSet(S) == SetToBag(S)

BagFilter(B, Keep(_)) == [x \in {y \in DOMAIN B : Keep(y)} |-> B[x]]

BagSize(B) == BagCardinality(B)

RECURSIVE SortedSeq(_)
SortedSeq(S) ==
    IF S = {} THEN <<>>
    ELSE LET m == CHOOSE x \in S : \A y \in S : x <= y
         IN <<m>> \o SortedSeq(S \ {m})

RECURSIVE BagSum(_)
BagSum(s) == IF s = <<>> THEN EmptyBag ELSE Head(s) (+) BagSum(Tail(s))

----------------------------------------------------------------------------
(* Configuration *)

\* The schema file of the standard APDB schema.  A schema file of the model
\* names one table and gives the index entries it lists for it; the other
\* tables have the standard entries.
StandardSchema == [table |-> "none", indices |-> <<>>]

Config(prefix, tpt, qpt, qps, delay, prepared, months, fmonths) ==
    [ prefix                     |-> prefix,
      time_partition_tables      |-> tpt,
      time_partition_days        |-> DefaultTimePartitionDays,
      part_pix_max_ranges        |-> DefaultMaxRanges,
      query_per_time_part        |-> qpt,
      query_per_spatial_part     |-> qps,
      pandas_delay_conv          |-> delay,
      prepared_statements        |-> prepared,
      read_sources_months        |-> months,
      read_forced_sources_months |-> fmonths,
      read_concurrency           |-> ReadConcurrency,
      time_partition_start       |-> DefaultPartitionStartDay * SECONDS_IN_DAY,
      time_partition_end         |-> DefaultPartitionEndDay * SECONDS_IN_DAY,
      schema_file                |-> StandardSchema ]

Configs ==
    { Config("",     TRUE,  FALSE, FALSE, TRUE,  TRUE,  1, 1),
      Config("",     FALSE, FALSE, TRUE,  FALSE, TRUE,  1, 0),
      Config("pfx_", FALSE, TRUE,  FALSE, TRUE,  FALSE, 0, 1),
      Config("",     FALSE, TRUE,  TRUE,  TRUE,  TRUE,  1, 1),
      Config("",     FALSE, TRUE,  FALSE, FALSE, FALSE, 1, 1) }

----------------------------------------------------------------------------
(* Schema catalog *)

LogicalTables == {"DiaObject", "DiaObjectLast", "DiaSource", "DiaForcedSource"}

\* Columns of each logical table (the YAML schema)
TableColumns(c, t) ==
    LET tp == IF c.time_partition_tables THEN {} ELSE {"apdb_time_part"} IN
    CASE t = "DiaObjectLast" ->
            {"apdb_part", "diaObjectId", "ra", "decl", "lastNonForcedSource"}
      [] t = "DiaObject" ->
            {"apdb_part", "diaObjectId", "validityStart", "ra", "decl",
             "lastNonForcedSource", "flags"} \cup tp
      [] t = "DiaSource" ->
            {"apdb_part", "diaObjectId", "diaSourceId", "ra", "decl",
             "midPointTai"} \cup tp
      [] t = "DiaForcedSource" ->
            {"apdb_part", "diaObjectId", "diaForcedSourceId", "midPointTai"} \cup tp

\* The PARTITION and PRIMARY index entries of each logical table
TableIndices(c, t) ==
    LET tp == IF c.time_partition_tables THEN {} ELSE {"apdb_time_part"} IN
    CASE t = "DiaObjectLast" ->
            [PARTITION |-> {"apdb_part"}, PRIMARY |-> {"diaObjectId"}]
      [] t = "DiaObject" ->
            [PARTITION |-> {"apdb_part"} \cup tp,
             PRIMARY |-> {"diaObjectId", "validityStart"}]
      [] t = "DiaSource" ->
            [PARTITION |-> {"apdb_part"} \cup tp,
             PRIMARY |-> {"diaObjectId", "diaSourceId"}]
      [] t = "DiaForcedSource" ->
            [PARTITION |-> {"apdb_part"} \cup tp,
             PRIMARY |-> {"diaObjectId", "diaForcedSourceId"}]

getColumnMap(c, t) == TableColumns(c, t)

\* table_schema.indices: the index entries of a table, in the order of the
\* schema file
IndexList(c, t) ==
    IF t = c.schema_file.table THEN c.schema_file.indices
    ELSE << [type |-> "PARTITION", columns |-> TableIndices(c, t).PARTITION],
            [type |-> "PRIMARY", columns |-> TableIndices(c, t).PRIMARY] >>

IndicesOfType(c, t, type) == SelectSeq(IndexList(c, t), LAMBDA x : x.type = type)

\* ApdbCassandraSchema.partitionColumns: the columns of the first PARTITION
\* index, an empty list when the table has none
partitionColumns(c, t) ==
    LET ix == IndicesOfType(c, t, "PARTITION")
    IN IF ix = <<>> THEN {} ELSE Head(ix).columns

clusteringColumns(c, t) ==
    LET ix == IndicesOfType(c, t, "PRIMARY")
    IN IF ix = <<>> THEN {} ELSE Head(ix).columns

\* ApdbCassandraSchema._tableColumns: the loop over the indices keeps the
\* columns of the last PARTITION and of the last PRIMARY index, and
\* ValueError is raised when either is empty
TableColumnsKey(c, t) ==
    LET part  == IndicesOfType(c, t, "PARTITION")
        clust == IndicesOfType(c, t, "PRIMARY")
    IN [part_columns  |-> IF part = <<>> THEN {} ELSE part[Len(part)].columns,
        clust_columns |-> IF clust = <<>> THEN {} ELSE clust[Len(clust)].columns]

MissingIndex(c, t) ==
    TableColumnsKey(c, t).part_columns = {} \/ TableColumnsKey(c, t).clust_columns = {}

tableName(c, t) == c.prefix \o t

\* Primary key of the physical tables of logical table t, as declared by the
\* DDL: PRIMARY KEY (partition columns, clustering columns)
PrimaryKey(c, t) == partitionColumns(c, t) \cup clusteringColumns(c, t)

----------------------------------------------------------------------------
(* Partitioner *)

\* pixelator.index(): sky positions are (ra, decl) with small integer ra;
\* a pixel holds two consecutive ra values
PixelIndex(ra, decl) == ra \div 2

\* Partitioner.pixel
Pixel(ra, decl) == PixelIndex(ra, decl)

\* pixelator.envelope(region, maxRanges): half-open ranges <<lo, hi>> of the
\* pixels that intersect the region (a set of positions); more than
\* maxRanges ranges are coarsened to one
PixelatorEnvelope(region, maxRanges) ==
    LET pix  == {PixelIndex(p[1], p[2]) : p \in region}
        runs == {<<lo, hi + 1>> : <<lo, hi>> \in
                   {r \in pix \X pix :
                       /\ r[1] <= r[2]
                       /\ \A q \in r[1]..r[2] : q \in pix
                       /\ (r[1] - 1) \notin pix
                       /\ (r[2] + 1) \notin pix}}
    IN IF Cardinality(runs) <= maxRanges \/ pix = {} THEN runs
       ELSE {<<CHOOSE lo \in pix : \A q \in pix : lo <= q,
               (CHOOSE hi \in pix : \A q \in pix : q <= hi) + 1>>}

\* Partitioner.pixels
PartitionerPixels(region) ==
    UNION {r[1]..(r[2] - 1) : r \in PixelatorEnvelope(region, FinestEnvelope)}

\* A _time_partition that takes the day count modulo the partition length
TimePartitionModulo(c, secs) ==
    Trunc(secs, SECONDS_IN_DAY) % c.time_partition_days

\* ApdbCassandra._time_partition: int() truncates the days since the epoch
\* towards zero, // then floors the quotient
TimePartition(c, secs) ==
    Trunc(secs, SECONDS_IN_DAY) \div c.time_partition_days

\* Time partitions of the model's physical tables
TimeParts == -3..3

\* Tables of the keyspace: those of the schema under the configured prefix,
\* one per time partition where the table is partitioned in time
PhysicalTables(c, t) ==
    {tableName(c, t)} \cup {tableName(c, t) \o "_" \o ToString(p) : p \in TimeParts}

\* The tables the inserts and the reads of a configuration can address
KeyspaceTables(c) == UNION {PhysicalTables(c, t) : t \in LogicalTables}

TableExists(c, table) == table \in created

----------------------------------------------------------------------------
(* Catalogs (pandas.DataFrame) and optional values *)

\* A catalog argument that is None
NoCatalog == [given |-> FALSE, columns |-> {}, rows |-> {}]

Catalog(columns, rows) == [given |-> TRUE, columns |-> columns, rows |-> rows]

None == [some |-> FALSE, val |-> 0]

Some(v) == [some |-> TRUE, val |-> v]

\* A Python value with the type qValue dispatches on
\* A datetime is whole seconds since 1970-01-01 (floor) and microseconds
DateTimeValue(secs, micros) == [type |-> "datetime", v |-> secs, us |-> micros]

IntValue(n) == [type |-> "int", v |-> n]

\* Schema types that _storeObjectsPandas converts
DateTimeColumns == {"lastNonForcedSource", "validityStart"}

----------------------------------------------------------------------------
(* The Cassandra session *)

KeyOf(row, key) == Project(row, key)

\* session.execute(BatchStatement of INSERTs): an INSERT is an upsert on the
\* primary key of the table; columns not named by it keep their values
Execute(d, table, key, rows) ==
    LET newkeys == {KeyOf(r, key) : r \in rows}
        hit(cell) == cell.table = table /\ KeyOf(cell.row, key) \in newkeys
        olds(r) == {cell.row : cell \in {x \in DOMAIN d :
                        x.table = table /\ KeyOf(x.row, key) = KeyOf(r, key)}}
        merged(r) == IF olds(r) = {} THEN r
                     ELSE r @@ (CHOOSE o \in olds(r) : TRUE)
        kept == BagFilter(d, LAMBDA cell : ~hit(cell))
    IN kept (+) BagOfSet({[table |-> table, row |-> merged(r)] : r \in rows})

\* Rows of a physical table, as a bag
TableRows(d, table) ==
    [r \in {cell.row : cell \in {x \in DOMAIN d : x.table = table}} |->
        d[[table |-> table, row |-> r]]]

----------------------------------------------------------------------------
(* Ingest pipeline *)

\* qValue: a datetime becomes milliseconds since 1970-01-01, a finite
\* number is passed through
qValue(x) ==
    IF x.type = "datetime"
    THEN (IF x.v < 0 /\ x.us > 0 THEN x.v + 1 ELSE x.v) * MillisPerSecond
    ELSE x.v

\* _add_obj_part that keeps an apdb_part column the catalog came with
AddObjPartKeep(df) ==
    IF "apdb_part" \in df.columns THEN df
    ELSE Catalog(df.columns \cup {"apdb_part"},
                 {SetCol(r, "apdb_part", Pixel(r.ra, r.decl)) : r \in df.rows})

\* ApdbCassandra._add_obj_part: the pixel of each record's own (ra, decl)
\* overrides any apdb_part column of the catalog
AddObjPart(df) ==
    Catalog(df.columns \cup {"apdb_part"},
            {SetCol(r, "apdb_part", Pixel(r.ra, r.decl)) : r \in df.rows})

\* The diaObjectId -> apdb_part dictionary built from the DiaObject catalog
PixelIdMap(objs) ==
    LET ids == {r.diaObjectId : r \in {x \in objs.rows : "diaObjectId" \in DOMAIN x}}
    IN [i \in ids |-> (CHOOSE r \in objs.rows :
                          "diaObjectId" \in DOMAIN r /\ r.diaObjectId = i).apdb_part]

\* _add_src_part that gives every source the pixel of its own position
AddSrcPartOwnPixel(sources, objs) ==
    LET map == PixelIdMap(objs)
        ok  == /\ {"diaObjectId", "ra", "decl"} \subseteq sources.columns
               /\ "diaObjectId" \in objs.columns
               /\ \A r \in sources.rows :
                     r.diaObjectId = 0 \/ r.diaObjectId \in DOMAIN map
    IN IF ~ok THEN [ok |-> FALSE, df |-> sources]
       ELSE [ok |-> TRUE,
             df |-> Catalog(sources.columns \cup {"apdb_part"},
                            {SetCol(r, "apdb_part", Pixel(r.ra, r.decl)) :
                                r \in sources.rows})]

\* ApdbCassandra._add_src_part; ok is FALSE when it raises KeyError
AddSrcPart(sources, objs) ==
    LET map == PixelIdMap(objs)
        ok  == /\ {"diaObjectId", "ra", "decl"} \subseteq sources.columns
               /\ "diaObjectId" \in objs.columns
               /\ \A r \in sources.rows :
                     r.diaObjectId = 0 \/ r.diaObjectId \in DOMAIN map
        part(r) == IF r.diaObjectId = 0 THEN Pixel(r.ra, r.decl)
                   ELSE map[r.diaObjectId]
    IN IF ~ok THEN [ok |-> FALSE, df |-> sources]
       ELSE [ok |-> TRUE,
             df |-> Catalog(sources.columns \cup {"apdb_part"},
                            {SetCol(r, "apdb_part", part(r)) : r \in sources.rows})]

\* ApdbCassandra._add_fsrc_part; ok is FALSE when it raises KeyError
AddFsrcPart(sources, objs) ==
    LET map == PixelIdMap(objs)
        ok  == /\ "diaObjectId" \in sources.columns
               /\ "diaObjectId" \in objs.columns
               /\ \A r \in sources.rows : r.diaObjectId \in DOMAIN map
    IN IF ~ok THEN [ok |-> FALSE, df |-> sources]
       ELSE [ok |-> TRUE,
             df |-> Catalog(sources.columns \cup {"apdb_part"},
                            {SetCol(r, "apdb_part", map[r.diaObjectId]) :
                                r \in sources.rows})]

\* Columns of the INSERT: catalog columns known to the schema, then the
\* extra columns
InsertFields(c, objects, table_name, extra_columns) ==
    LET extra_fields == DOMAIN extra_columns
        df_fields    == objects.columns \ extra_fields
    IN (df_fields \cap getColumnMap(c, table_name)) \cup extra_fields

\* Partitioning and clustering columns that the INSERT would lack
MissingColumns(c, objects, table_name, extra_columns) ==
    (partitionColumns(c, table_name) \cup clusteringColumns(c, table_name))
        \ InsertFields(c, objects, table_name, extra_columns)

\* Physical table an insert goes to
InsertTable(c, table_name, time_part) ==
    IF time_part.some
    THEN tableName(c, table_name) \o "_" \o ToString(time_part.val)
    ELSE tableName(c, table_name)

\* Values bound to the INSERT of one record
InsertValues(c, rec, objects, table_name, extra_columns) ==
    [f \in InsertFields(c, objects, table_name, extra_columns) |->
        IF f \in DOMAIN extra_columns THEN qValue(extra_columns[f])
        ELSE IF f \in DateTimeColumns THEN rec[f] * MillisPerSecond
        ELSE qValue(IntValue(rec[f]))]

\* _storeObjectsPandas with the key columns checked after the statement is
\* prepared
StoreObjectsPandasLateCheck(c, d, objects, table_name, extra_columns, time_part) ==
    LET table == InsertTable(c, table_name, time_part)
        rows  == {InsertValues(c, rec, objects, table_name, extra_columns) :
                     rec \in objects.rows}
        prep  == IF c.prepared_statements
                 THEN <<[op |-> "prepare", table |-> table_name, phys |-> table]>>
                 ELSE <<>>
    IN IF MissingColumns(c, objects, table_name, extra_columns) # {}
       THEN [ok |-> FALSE, db |-> d, driver |-> prep]
       ELSE [ok |-> TRUE,
             db |-> Execute(d, table, PrimaryKey(c, table_name), rows),
             driver |-> prep \o
                 <<[op |-> "execute", table |-> table_name, phys |-> table]>>]

\* ApdbCassandra._storeObjectsPandas.  The result tells whether the call
\* returned (ok) or raised ValueError before touching the session, the
\* keyspace afterwards and the driver calls made.
StoreObjectsPandas(c, d, objects, table_name, extra_columns, time_part) ==
    LET table == InsertTable(c, table_name, time_part)
        rows  == {InsertValues(c, rec, objects, table_name, extra_columns) :
                     rec \in objects.rows}
        prep  == IF c.prepared_statements
                 THEN <<[op |-> "prepare", table |-> table_name, phys |-> table]>>
                 ELSE <<>>
    IN IF MissingColumns(c, objects, table_name, extra_columns) # {}
       THEN [ok |-> FALSE, db |-> d, driver |-> <<>>]
       ELSE [ok |-> TRUE,
             db |-> Execute(d, table, PrimaryKey(c, table_name), rows),
             driver |-> prep \o
                 <<[op |-> "execute", table |-> table_name, phys |-> table]>>]

\* extra_columns of the DiaObjectLast insert
ExtraColumnsLast(c, visit_time_dt) ==
    [k \in {"lastNonForcedSource"} |-> visit_time_dt]

\* extra_columns of the DiaObject insert
ExtraColumnsObject(c, visit_time, visit_time_dt) ==
    [k \in {"lastNonForcedSource", "validityStart"} \cup
           (IF c.time_partition_tables THEN {} ELSE {"apdb_time_part"}) |->
        IF k = "apdb_time_part" THEN IntValue(TimePartition(c, visit_time))
        ELSE visit_time_dt]

\* extra_columns of the source inserts with the day of the visit in place
\* of its time partition
ExtraColumnsSourceDay(c, visit_time) ==
    [k \in (IF c.time_partition_tables THEN {} ELSE {"apdb_time_part"}) |->
        IntValue(Trunc(visit_time, SECONDS_IN_DAY))]

\* extra_columns of the DiaSource / DiaForcedSource insert
ExtraColumnsSource(c, visit_time) ==
    [k \in (IF c.time_partition_tables THEN {} ELSE {"apdb_time_part"}) |->
        IntValue(TimePartition(c, visit_time))]

\* time_part argument of the inserts that are partitioned in time
TimePartArg(c, visit_time) ==
    IF c.time_partition_tables THEN Some(TimePartition(c, visit_time)) ELSE None

\* The work store() does for one table: partition columns, validation,
\* insert.  cl is the call: visit_time, objects (after _add_obj_part) and
\* the sources / forced_sources arguments.
StoreTable(c, d, cl, table_name) ==
    CASE table_name = "DiaObjectLast" ->
            StoreObjectsPandas(c, d, cl.objects, "DiaObjectLast",
                               ExtraColumnsLast(c, cl.visit_time_dt), None)
      [] table_name = "DiaObject" ->
            StoreObjectsPandas(c, d, cl.objects, "DiaObject",
                               ExtraColumnsObject(c, cl.visit_time, cl.visit_time_dt),
                               TimePartArg(c, cl.visit_time))
      [] table_name = "DiaSource" ->
            LET s == AddSrcPart(cl.sources, cl.objects)
            IN IF ~s.ok THEN [ok |-> FALSE, db |-> d, driver |-> <<>>]
               ELSE StoreObjectsPandas(c, d, s.df, "DiaSource",
                                       ExtraColumnsSource(c, cl.visit_time),
                                       TimePartArg(c, cl.visit_time))
      [] table_name = "DiaForcedSource" ->
            LET s == AddFsrcPart(cl.forced_sources, cl.objects)
            IN IF ~s.ok THEN [ok |-> FALSE, db |-> d, driver |-> <<>>]
               ELSE StoreObjectsPandas(c, d, s.df, "DiaForcedSource",
                                       ExtraColumnsSource(c, cl.visit_time),
                                       TimePartArg(c, cl.visit_time))

\* store() with the DiaObject history written before DiaObjectLast
NextStepHistoryFirst(step, cl) ==
    LET srcs == IF cl.sources.given THEN <<"DiaSource">> ELSE <<>>
        fsrc == IF cl.forced_sources.given THEN <<"DiaForcedSource">> ELSE <<>>
        plan == <<"start", "DiaObject", "DiaObjectLast">> \o srcs \o fsrc
                    \o <<"idle">>
        i    == CHOOSE k \in 1..Len(plan) : plan[k] = step
    IN plan[i + 1]

\* The order of the inserts of one store(): the table written after `step`
\* ("start" on entry), "idle" when store() returns
NextStep(step, cl) ==
    LET srcs == IF cl.sources.given THEN <<"DiaSource">> ELSE <<>>
        fsrc == IF cl.forced_sources.given THEN <<"DiaForcedSource">> ELSE <<>>
        plan == <<"start", "DiaObjectLast", "DiaObject">> \o srcs \o fsrc
                    \o <<"idle">>
        i    == CHOOSE k \in 1..Len(plan) : plan[k] = step
    IN plan[i + 1]

----------------------------------------------------------------------------
(* Inputs of store(): visit times and catalogs *)

\* Visit times: two visits two seconds apart, and one a partition later
VisitTimes == << -20 * SECONDS_IN_DAY, -20 * SECONDS_IN_DAY + 2, SECONDS_IN_DAY >>

StoreTimes == {VisitTimes[i] : i \in 1..Len(VisitTimes)}

VisitNo(vt) == CHOOSE i \in 1..Len(VisitTimes) : VisitTimes[i] = vt

ObjectIds == {1, 2}

\* Placements of objects on the sky: object id -> ra (decl is 0); ra 1 lies
\* in pixel 0 and ra 2 in pixel 1
Placements ==
    { [i \in {1} |-> 1], [i \in {1} |-> 2], [i \in {1, 2} |-> i] }

\* A DiaObject catalog with one record per placed object
makeObjectCatalog(place) ==
    Catalog({"diaObjectId", "ra", "decl", "flags"},
            {[diaObjectId |-> i, ra |-> place[i], decl |-> 0, flags |-> 0] :
                i \in DOMAIN place})

\* One DiaSource per object, observed at the visit time
makeSourceCatalog(objects, visit_time) ==
    Catalog({"diaObjectId", "diaSourceId", "ra", "decl", "midPointTai"},
            {[diaObjectId |-> o.diaObjectId,
              diaSourceId |-> 10 * VisitNo(visit_time) + o.diaObjectId,
              ra |-> o.ra, decl |-> o.decl, midPointTai |-> visit_time] :
                o \in objects.rows})

\* One DiaForcedSource per object, observed at the visit time
makeForcedSourceCatalog(objects, visit_time) ==
    Catalog({"diaObjectId", "diaForcedSourceId", "midPointTai"},
            {[diaObjectId |-> o.diaObjectId,
              diaForcedSourceId |-> 10 * VisitNo(visit_time) + o.diaObjectId,
              midPointTai |-> visit_time] : o \in objects.rows})

DropColumn(df, col) ==
    Catalog(df.columns \ {col}, {Project(r, df.columns \ {col}) : r \in df.rows})

WithColumn(df, col, v) ==
    Catalog(df.columns \cup {col}, {SetCol(r, col, v) : r \in df.rows})

\* Re-point every record of a source catalog to DiaObject `id`
Reassigned(df, id) == WithColumn(df, "diaObjectId", id)

Visit(vt, objects, sources, forced_sources) ==
    [visit_time |-> vt, micros |-> 0, objects |-> objects, sources |-> sources,
     forced_sources |-> forced_sources]

\* The same visit a fraction of a second later
VisitAt(v, micros) == [v EXCEPT !.micros = micros]

BothObjects == makeObjectCatalog([i \in {1, 2} |-> i])

\* Both objects with their sources and forced sources
FullVisit(vt) ==
    Visit(vt, BothObjects, makeSourceCatalog(BothObjects, vt),
          makeForcedSourceCatalog(BothObjects, vt))

\* Well-formed visits: objects alone at every placement, and two objects
\* with their sources and forced sources
GoodVisits ==
    {Visit(vt, makeObjectCatalog(p), NoCatalog, NoCatalog) :
        vt \in {VisitTimes[1], VisitTimes[3]}, p \in Placements}
    \cup {FullVisit(vt) : vt \in StoreTimes}

\* Visits of the ingest specification: well-formed ones, an apdb_part column
\* supplied by the caller, a solar-system source, catalogs that lack a key
\* column, and sources of a DiaObject that the visit does not carry
IngestVisits ==
    LET vt   == VisitTimes[1]
        one  == makeObjectCatalog([i \in {1} |-> 2])
        src  == makeSourceCatalog(BothObjects, vt)
        fsrc == makeForcedSourceCatalog(BothObjects, vt)
    IN { FullVisit(vt), FullVisit(VisitTimes[3]),
         Visit(vt, one, NoCatalog, NoCatalog),
         Visit(vt, WithColumn(one, "apdb_part", 7), NoCatalog, NoCatalog),
         Visit(vt, DropColumn(one, "diaObjectId"), NoCatalog, NoCatalog),
         Visit(vt, BothObjects, Reassigned(makeSourceCatalog(one, vt), 0), NoCatalog),
         Visit(vt, one, src, NoCatalog),
         Visit(vt, BothObjects, DropColumn(src, "diaSourceId"), NoCatalog),
         Visit(vt, BothObjects, DropColumn(src, "diaObjectId"), NoCatalog),
         Visit(vt, one, NoCatalog, fsrc),
         Visit(vt, one, WithColumn(makeSourceCatalog(one, vt), "ra", 1), fsrc) }

NoVisit == Visit(0, NoCatalog, NoCatalog, NoCatalog)

----------------------------------------------------------------------------
(* State machine: construction, store() *)

NoCall == [visit_time |-> 0, visit_time_dt |-> DateTimeValue(0, 0),
           objects |-> NoCatalog, sources |-> NoCatalog,
           forced_sources |-> NoCatalog, args |-> NoVisit]

NoRet == [op |-> "none"]

\* No read is executing
NoExec == [state |-> "none", n |-> 0, sent |-> {}, done |-> {}, failed |-> {},
           current |-> 0, error |-> "none"]

\* No call made yet, nothing stored
Fresh ==
    /\ db = EmptyBag
    /\ pc = "idle"
    /\ call = NoCall
    /\ outcome = "none"
    /\ driver = <<>>
    /\ snap = EmptyBag
    /\ prev = [args |-> NoVisit, snap |-> EmptyBag, outcome |-> "none"]
    /\ nstores = 0
    /\ ret = NoRet
    /\ last = <<>>
    /\ versions = EmptyBag
    /\ exec = NoExec

\* The instance after construction
Start ==
    /\ cfg \in Configs
    /\ Fresh

\* A keyspace prepared with every table the configuration can address
Init ==
    /\ Start
    /\ created = KeyspaceTables(cfg)

\* An empty keyspace: tables come from makeSchema only
InitSchema ==
    /\ Start
    /\ created = {}

\* The call in flight: its arguments, and the objects with their partition
Call(v) ==
    [visit_time |-> v.visit_time,
     visit_time_dt |-> DateTimeValue(v.visit_time, v.micros),
     objects |-> AddObjPart(v.objects),
     sources |-> v.sources,
     forced_sources |-> v.forced_sources,
     args |-> v]

\* store(visit_time, objects, sources, forced_sources) is entered:
\* _add_obj_part fills the partition column of the objects
StoreBegin(visits, max) ==
    \E v \in visits :
        /\ pc = "idle"
        /\ nstores < max
        /\ call' = Call(v)
        /\ pc' = NextStep("start", call')
        /\ outcome' = "running"
        /\ driver' = <<>>
        /\ snap' = db
        /\ prev' = [args |-> call.args, snap |-> snap, outcome |-> outcome]
        /\ nstores' = nstores + 1
        /\ ret' = NoRet
        /\ UNCHANGED <<cfg, db, last, versions, created, exec>>

\* The objects of a catalog as the history records them
Written(objects, visit_time) ==
    [i \in {r.diaObjectId : r \in objects.rows} |->
        LET r == CHOOSE x \in objects.rows : x.diaObjectId = i
        IN [ra |-> r.ra, decl |-> r.decl, visit_time |-> visit_time]]

\* The versions one DiaObject insert writes: one per object of the catalog
Versions(cl) ==
    SetToBag({[diaObjectId |-> i, visit_time |-> cl.visit_time_dt] :
                 i \in {r.diaObjectId : r \in cl.objects.rows}})

\* Physical table the insert of one step of store() goes to
StepTable(c, cl, table_name) ==
    InsertTable(c, table_name,
                IF table_name = "DiaObjectLast" THEN None
                ELSE TimePartArg(c, cl.visit_time))

\* The insert into `table_name` of the store() in flight: it either raises
\* a data error, which ends store(), or executes and store() moves on
StoreStep(table_name) ==
    /\ pc = table_name
    /\ StoreTable(cfg, db, call, table_name).ok =>
            TableExists(cfg, StepTable(cfg, call, table_name))
    /\ LET r == StoreTable(cfg, db, call, table_name)
       IN IF r.ok
          THEN /\ db' = r.db
               /\ driver' = driver \o r.driver
               /\ pc' = NextStep(table_name, call)
               /\ outcome' = IF pc' = "idle" THEN "ok" ELSE outcome
               /\ last' = IF table_name = "DiaObjectLast"
                          THEN Written(call.objects, call.visit_time) @@ last
                          ELSE last
               /\ versions' = IF table_name = "DiaObject"
                              THEN versions (+) Versions(call)
                              ELSE versions
          ELSE /\ db' = r.db
               /\ driver' = driver \o r.driver
               /\ pc' = "idle"
               /\ outcome' = "data_error"
               /\ UNCHANGED <<last, versions>>
    /\ ret' = NoRet
    /\ UNCHANGED <<cfg, call, snap, prev, nstores, created, exec>>

\* _storeDiaObjects, first half: the insert into DiaObjectLast
StoreDiaObjectLast ==
    /\ pc = "DiaObjectLast"
    /\ StoreStep("DiaObjectLast")

\* _storeDiaObjects, second half: the insert into DiaObject
StoreDiaObject ==
    /\ pc = "DiaObject"
    /\ StoreStep("DiaObject")

\* _add_src_part and _storeDiaSources(DiaSource)
StoreDiaSources ==
    /\ pc = "DiaSource"
    /\ StoreStep("DiaSource")

\* _add_fsrc_part and _storeDiaSources(DiaForcedSource)
StoreDiaForcedSources ==
    /\ pc = "DiaForcedSource"
    /\ StoreStep("DiaForcedSource")

\* The driver fails the batch of the insert in flight (timeout, unavailable
\* replicas): the batch is not applied and store() raises
StoreDriverError ==
    /\ pc \in LogicalTables
    /\ StoreTable(cfg, db, call, pc).ok
    /\ pc' = "idle"
    /\ outcome' = "driver_error"
    /\ ret' = NoRet
    /\ UNCHANGED <<cfg, db, call, driver, snap, prev, nstores, last, versions, created, exec>>

\* The table of the insert in flight does not exist: prepare / execute
\* raise InvalidRequest, nothing is written and store() raises
StoreMissingTable ==
    /\ pc \in LogicalTables
    /\ StoreTable(cfg, db, call, pc).ok
    /\ ~TableExists(cfg, StepTable(cfg, call, pc))
    /\ pc' = "idle"
    /\ outcome' = "driver_error"
    /\ ret' = NoRet
    /\ UNCHANGED <<cfg, db, call, driver, snap, prev, nstores, last, versions, created, exec>>

Store(visits, max) ==
    \/ StoreBegin(visits, max)
    \/ StoreDiaObjectLast
    \/ StoreDiaObject
    \/ StoreDiaSources
    \/ StoreDiaForcedSources
    \/ StoreDriverError

NextIngest == Store(IngestVisits, MaxStores)

SpecIngest == Init /\ [][NextIngest]_vars

\* Visits of the replay specification: an object alone at two positions, and two
\* objects with their sources and forced sources
ReplayVisits ==
    {Visit(VisitTimes[1], makeObjectCatalog(p), NoCatalog, NoCatalog) :
        p \in {[i \in {1} |-> 1], [i \in {1} |-> 2]}}
    \cup {FullVisit(VisitTimes[1])}

NextReplay == Store(ReplayVisits, MaxReplayStores)

SpecReplay == Init /\ [][NextReplay]_vars

----------------------------------------------------------------------------
(* Query planner and executor *)

Frame(columns, rows, nq) ==
    [kind |-> "frame", columns |-> columns, rows |-> rows, nq |-> nq]

Absent == [kind |-> "absent", columns |-> {}, rows |-> EmptyBag, nq |-> 0]

Raised(nq) == [kind |-> "error", columns |-> {}, rows |-> EmptyBag, nq |-> nq]

\* A SELECT * statement: the physical table, the logical table whose
\* columns it has, the admitted apdb_part values and, when the statement
\* restricts it, the admitted apdb_time_part values
Statement(table, logical, parts, tparts) ==
    [table |-> table, logical |-> logical, parts |-> parts, tparts |-> tparts]

\* What the cluster answers to one statement: (column names, rows), or an
\* error for a table that does not exist
QueryResult(c, d, stmt) ==
    IF ~TableExists(c, stmt.table)
    THEN [ok |-> FALSE, columns |-> {}, rows |-> EmptyBag]
    ELSE [ok |-> TRUE,
          columns |-> TableColumns(c, stmt.logical),
          rows |-> BagFilter(TableRows(d, stmt.table),
                     LAMBDA r : /\ r.apdb_part \in stmt.parts
                                /\ stmt.tparts.some =>
                                      r.apdb_time_part \in stmt.tparts.val)]

\* ApdbCassandra._spatial_where without ranges, and the same lines of
\* _getSources: one predicate per pixel, or one IN list
SpatialWhere(c, region) ==
    LET pixels == SortedSeq(PartitionerPixels(region))
    IN IF c.query_per_spatial_part
       THEN [i \in 1..Len(pixels) |-> {pixels[i]}]
       ELSE << PartitionerPixels(region) >>

\* _run_queries that keeps the columns of the first answer and does not
\* compare the columns of the others with them
RunQueriesNoCompare(c, results) ==
    LET n   == Len(results)
        bad == {i \in 1..n : ~results[i].ok}
        all == BagSum([i \in 1..n |-> results[i].rows])
    IN IF bad # {} \/ (~c.pandas_delay_conv /\ n = 0)
       THEN Raised(n)
       ELSE Frame(IF n = 0 THEN {} ELSE results[1].columns, all, n)

\* ApdbCassandra._run_queries on the answers of the statements, in the
\* order of the statements
RunQueries(c, results) ==
    LET n   == Len(results)
        bad == {i \in 1..n : ~results[i].ok}
        oks == {i \in 1..n : results[i].ok}
        all == BagSum([i \in 1..n |-> results[i].rows])
    IN IF c.pandas_delay_conv
       THEN IF bad # {} \/ \E i, j \in oks : results[i].columns # results[j].columns
            THEN Raised(n)
            ELSE Frame(IF n = 0 THEN {} ELSE results[1].columns, all, n)
       ELSE IF bad # {} \/ n = 0
            THEN Raised(n)
            ELSE Frame(UNION {results[i].columns : i \in 1..n}, all, n)

\* The statements getDiaObjects builds: the table name is the literal
\* "DiaObjectLast" of the query text
ObjectStatements(c, region) ==
    LET where == SpatialWhere(c, region)
    IN [i \in 1..Len(where) |->
            Statement("DiaObjectLast", "DiaObjectLast", where[i], None)]

\* ApdbCassandra.getDiaObjects
getDiaObjects(c, d, region) ==
    LET statements == ObjectStatements(c, region)
    IN RunQueries(c, [i \in 1..Len(statements) |-> QueryResult(c, d, statements[i])])

\* ApdbCassandra._make_empty_catalog
MakeEmptyCatalog(c, table_name) == Frame(TableColumns(c, table_name), EmptyBag, 0)

\* _getSources with range(time_part_start, time_part_end): the partition of
\* mjd_end is left out
SourceStatementsHalfOpen(c, region, mjd_start, mjd_end, table_name) ==
    LET spatial_where == SpatialWhere(c, region)
        full_name  == tableName(c, table_name)
        time_parts == [i \in 1..(TimePartition(c, mjd_end) - TimePartition(c, mjd_start))
                          |-> TimePartition(c, mjd_start) + i - 1]
        tables == IF c.time_partition_tables
                  THEN [i \in 1..Len(time_parts) |->
                           full_name \o "_" \o ToString(time_parts[i])]
                  ELSE <<full_name>>
        temporal_where ==
            IF c.time_partition_tables THEN <<>>
            ELSE IF c.query_per_time_part
                 THEN [i \in 1..Len(time_parts) |-> Some({time_parts[i]})]
                 ELSE <<Some({time_parts[i] : i \in 1..Len(time_parts)})>>
        temporal == IF temporal_where = <<>> THEN <<None>> ELSE temporal_where
        nt == Len(tables)
        ns == Len(spatial_where)
        nw == Len(temporal)
    IN [k \in 1..(nt * ns * nw) |->
          Statement(tables[((k - 1) \div (ns * nw)) + 1], table_name,
                    spatial_where[(((k - 1) \div nw) % ns) + 1],
                    temporal[((k - 1) % nw) + 1])]

\* The statements _getSources builds: tables x spatial x temporal
SourceStatements(c, region, mjd_start, mjd_end, table_name) ==
    LET spatial_where == SpatialWhere(c, region)
        full_name  == tableName(c, table_name)
        time_parts == [i \in 1..(TimePartition(c, mjd_end) - TimePartition(c, mjd_start) + 1)
                          |-> TimePartition(c, mjd_start) + i - 1]
        tables == IF c.time_partition_tables
                  THEN [i \in 1..Len(time_parts) |->
                           full_name \o "_" \o ToString(time_parts[i])]
                  ELSE <<full_name>>
        temporal_where ==
            IF c.time_partition_tables THEN <<>>
            ELSE IF c.query_per_time_part
                 THEN [i \in 1..Len(time_parts) |-> Some({time_parts[i]})]
                 ELSE <<Some({time_parts[i] : i \in 1..Len(time_parts)})>>
        temporal == IF temporal_where = <<>> THEN <<None>> ELSE temporal_where
        nt == Len(tables)
        ns == Len(spatial_where)
        nw == Len(temporal)
    IN [k \in 1..(nt * ns * nw) |->
          Statement(tables[((k - 1) \div (ns * nw)) + 1], table_name,
                    spatial_where[(((k - 1) \div nw) % ns) + 1],
                    temporal[((k - 1) % nw) + 1])]

\* _getSources that keeps the rows at the very start of the window
GetSourcesInclusive(c, d, region, object_ids, mjd_start, mjd_end, table_name) ==
    IF object_ids.given /\ object_ids.ids = {}
    THEN MakeEmptyCatalog(c, table_name)
    ELSE
      LET statements == SourceStatements(c, region, mjd_start, mjd_end, table_name)
          catalog == RunQueries(c, [i \in 1..Len(statements) |->
                                       QueryResult(c, d, statements[i])])
          by_id == IF object_ids.given
                   THEN BagFilter(catalog.rows,
                                  LAMBDA r : r.diaObjectId \in object_ids.ids)
                   ELSE catalog.rows
      IN IF catalog.kind = "error" THEN catalog
         ELSE IF ~({"diaObjectId", "midPointTai"} \subseteq catalog.columns)
         THEN Raised(catalog.nq)
         ELSE Frame(catalog.columns,
                    BagFilter(by_id, LAMBDA r : r.midPointTai >= mjd_start),
                    catalog.nq)

\* _getSources that plans and runs the queries of an empty id list
GetSourcesNoShortcut(c, d, region, object_ids, mjd_start, mjd_end, table_name) ==
    LET statements == SourceStatements(c, region, mjd_start, mjd_end, table_name)
        catalog == RunQueries(c, [i \in 1..Len(statements) |->
                                     QueryResult(c, d, statements[i])])
        by_id == IF object_ids.given
                 THEN BagFilter(catalog.rows,
                                LAMBDA r : r.diaObjectId \in object_ids.ids)
                 ELSE catalog.rows
    IN IF catalog.kind = "error" THEN catalog
       ELSE IF ~({"diaObjectId", "midPointTai"} \subseteq catalog.columns)
       THEN Raised(catalog.nq)
       ELSE Frame(catalog.columns,
                  BagFilter(by_id, LAMBDA r : r.midPointTai > mjd_start),
                  catalog.nq)

\* ApdbCassandra._getSources
GetSources(c, d, region, object_ids, mjd_start, mjd_end, table_name) ==
    IF object_ids.given /\ object_ids.ids = {}
    THEN MakeEmptyCatalog(c, table_name)
    ELSE
      LET statements == SourceStatements(c, region, mjd_start, mjd_end, table_name)
          catalog == RunQueries(c, [i \in 1..Len(statements) |->
                                       QueryResult(c, d, statements[i])])
          by_id == IF object_ids.given
                   THEN BagFilter(catalog.rows,
                                  LAMBDA r : r.diaObjectId \in object_ids.ids)
                   ELSE catalog.rows
      IN IF catalog.kind = "error" THEN catalog
         ELSE IF ~({"diaObjectId", "midPointTai"} \subseteq catalog.columns)
         THEN Raised(catalog.nq)
         ELSE Frame(catalog.columns,
                    BagFilter(by_id, LAMBDA r : r.midPointTai > mjd_start),
                    catalog.nq)

\* getDiaSources that looks at the id list before the months
getDiaSourcesIdsFirst(c, d, region, object_ids, visit_time) ==
    LET months == c.read_sources_months
        mjd_end == visit_time
        mjd_start == mjd_end - months * DaysPerMonth * SECONDS_IN_DAY
    IN IF object_ids.given /\ object_ids.ids = {}
       THEN MakeEmptyCatalog(c, "DiaSource")
       ELSE IF months = 0 THEN Absent
       ELSE GetSources(c, d, region, object_ids, mjd_start, mjd_end, "DiaSource")

\* ApdbCassandra.getDiaSources
getDiaSources(c, d, region, object_ids, visit_time) ==
    LET months == c.read_sources_months
        mjd_end == visit_time
        mjd_start == mjd_end - months * DaysPerMonth * SECONDS_IN_DAY
    IN IF months = 0 THEN Absent
       ELSE GetSources(c, d, region, object_ids, mjd_start, mjd_end, "DiaSource")

\* ApdbCassandra.getDiaForcedSources
getDiaForcedSources(c, d, region, object_ids, visit_time) ==
    LET months == c.read_forced_sources_months
        mjd_end == visit_time
        mjd_start == mjd_end - months * DaysPerMonth * SECONDS_IN_DAY
    IN IF months = 0 THEN Absent
       ELSE GetSources(c, d, region, object_ids, mjd_start, mjd_end, "DiaForcedSource")

----------------------------------------------------------------------------
(* Inputs of the reads *)

AllSky == {<<1, 0>>, <<2, 0>>}

LeftSky == {<<1, 0>>}

Regions == {AllSky, LeftSky, {}}

NoIds == [given |-> FALSE, ids |-> {}]

Ids(S) == [given |-> TRUE, ids |-> S]

\* Read times: the one whose 30-day window opens at the first visit, and a
\* time before the last visit
ReadTimes == {VisitTimes[1] + DaysPerMonth * SECONDS_IN_DAY, -5 * SECONDS_IN_DAY}

ReadArgs(region, object_ids, visit_time) ==
    [region |-> region, object_ids |-> object_ids, visit_time |-> visit_time]

SourceReads ==
    {ReadArgs(r, Ids(i), t) : r \in {AllSky, LeftSky}, i \in {{1}, {1, 2}}, t \in ReadTimes}
    \cup {ReadArgs(AllSky, i, t) : i \in {NoIds, Ids({})}, t \in ReadTimes}
    \cup {ReadArgs({}, i, t) : i \in {Ids({}), Ids({1})}, t \in ReadTimes}

----------------------------------------------------------------------------
(* State machine: reads, between two calls of store().  A read leaves the
   tables alone, so one read from each state of the tables covers every
   sequence of reads *)

Returned(op, args, result) == [op |-> op, args |-> args, result |-> result]

GetDiaObjects ==
    \E region \in Regions :
        /\ pc = "idle"
        /\ ret = NoRet
        /\ ret' = Returned("getDiaObjects", ReadArgs(region, NoIds, 0),
                           getDiaObjects(cfg, db, region))
        /\ UNCHANGED <<cfg, db, pc, call, outcome, driver, snap, prev, nstores, last, versions, created, exec>>

GetDiaSources ==
    \E a \in SourceReads :
        /\ pc = "idle"
        /\ ret = NoRet
        /\ ret' = Returned("getDiaSources", a,
                           getDiaSources(cfg, db, a.region, a.object_ids, a.visit_time))
        /\ UNCHANGED <<cfg, db, pc, call, outcome, driver, snap, prev, nstores, last, versions, created, exec>>

GetDiaForcedSources ==
    \E a \in SourceReads :
        /\ pc = "idle"
        /\ ret = NoRet
        /\ ret' = Returned("getDiaForcedSources", a,
                           getDiaForcedSources(cfg, db, a.region, a.object_ids,
                                               a.visit_time))
        /\ UNCHANGED <<cfg, db, pc, call, outcome, driver, snap, prev, nstores, last, versions, created, exec>>

Next ==
    \/ StoreBegin(GoodVisits, MaxStores)
    \/ StoreDiaObjectLast
    \/ StoreDiaObject
    \/ StoreDiaSources
    \/ StoreDiaForcedSources
    \/ GetDiaObjects
    \/ GetDiaSources
    \/ GetDiaForcedSources

Spec == Init /\ [][Next]_vars

----------------------------------------------------------------------------
(* Properties *)

\* Rows of a logical table, over all its physical tables
LogicalRows(c, d, table_name) ==
    LET cells == {x \in DOMAIN d : x.table \in PhysicalTables(c, table_name)}
    IN [r \in {x.row : x \in cells} |->
           BagSize(BagFilter(d, LAMBDA x : x.row = r /\ x \in cells))]

\* Number of rows of DiaObjectLast that carry a diaObjectId
LastRowsOf(id) ==
    BagSize(BagFilter(TableRows(db, tableName(cfg, "DiaObjectLast")),
                      LAMBDA r : r.diaObjectId = id))

\* C2: in every reachable state DiaObjectLast holds exactly one row for
\* each diaObjectId that was ever stored, wherever the object was placed.
C2_OneRowPerObject ==
    \A id \in ObjectIds : LastRowsOf(id) = IF id \in DOMAIN last THEN 1 ELSE 0

\* C8: a store() whose DiaObject catalog lacks the key column diaObjectId
\* ends in a data error at the first insert: no statement has been prepared
\* or executed and every table is as it was before the call.
C8_MissingKeyFailsEarly ==
    (nstores >= 1 /\ call.args.objects.given
        /\ "diaObjectId" \notin call.args.objects.columns)
    => /\ pc \in {"DiaObjectLast", "idle"}
       /\ pc = "idle" => outcome = "data_error"
       /\ driver = <<>>
       /\ db = snap

\* C8 witness: such a store() has failed on tables that hold rows
C8_Witness ==
    /\ pc = "idle"
    /\ outcome = "data_error"
    /\ "diaObjectId" \notin call.args.objects.columns
    /\ snap # EmptyBag
    /\ db = snap

\* C9: a store() that ends in a data error has made no driver call and has
\* modified no table.
C9_DataErrorBeforeDriver ==
    outcome = "data_error" => driver = <<>> /\ db = snap

\* C10: every row of DiaObjectLast and DiaObject carries the pixel of its
\* own (ra, decl) in apdb_part, whatever apdb_part the catalog came with.
C10_ObjectPartIsPixel ==
    \A t \in {"DiaObjectLast", "DiaObject"} :
        \A r \in DOMAIN LogicalRows(cfg, db, t) : r.apdb_part = Pixel(r.ra, r.decl)

\* C10 witness: a catalog that came with another apdb_part has been stored
C10_Witness ==
    /\ pc = "idle"
    /\ outcome = "ok"
    /\ "apdb_part" \in call.args.objects.columns
    /\ \E r \in call.args.objects.rows : r.apdb_part # Pixel(r.ra, r.decl)
    /\ \E r \in DOMAIN LogicalRows(cfg, db, "DiaObject") :
          r.lastNonForcedSource = call.visit_time * MillisPerSecond

\* Tables of the batches executed so far by the store() in flight or last
\* finished, in the order of execution
Executed ==
    LET ex == SelectSeq(driver, LAMBDA x : x.op = "execute")
    IN [i \in 1..Len(ex) |-> ex[i].table]

TableRank(t) ==
    CASE t = "DiaObjectLast" -> 1
      [] t = "DiaObject" -> 2
      [] t = "DiaSource" -> 3
      [] t = "DiaForcedSource" -> 4

\* Rows of a logical table that the store() in flight has made visible
VisibleWrites(t) ==
    {x \in DOMAIN db : /\ x.table \in PhysicalTables(cfg, t)
                       /\ (x \notin DOMAIN snap \/ db[x] # snap[x])}

\* C6: within one store() the batches are executed in the order
\* DiaObjectLast, DiaObject, DiaSource, DiaForcedSource, one after the
\* other; in every intermediate state, if a DiaObject, DiaSource or
\* DiaForcedSource row of the visit is visible, the DiaObjectLast batch of
\* the visit has been executed before it.
C6_InsertOrder ==
    /\ \A i, j \in 1..Len(Executed) :
          i < j => TableRank(Executed[i]) < TableRank(Executed[j])
    /\ Executed # <<>> => Executed[1] = "DiaObjectLast"
    /\ \A t \in LogicalTables \ {"DiaObjectLast"} :
          VisibleWrites(t) # {} =>
             \E i, j \in 1..Len(Executed) :
                /\ Executed[i] = "DiaObjectLast"
                /\ Executed[j] = t
                /\ i < j

\* C6 witness: a store() with all three catalogs has executed its four
\* batches and their rows are visible
C6_Witness ==
    /\ Len(Executed) = 4
    /\ \A t \in LogicalTables : VisibleWrites(t) # {}

\* The tables after one store() of visit v that runs to its end from tables d
FullStore(c, d, v) ==
    LET cl == Call(v)
        d1 == StoreTable(c, d, cl, "DiaObjectLast").db
        d2 == StoreTable(c, d1, cl, "DiaObject").db
        d3 == IF v.sources.given THEN StoreTable(c, d2, cl, "DiaSource").db ELSE d2
    IN IF v.forced_sources.given THEN StoreTable(c, d3, cl, "DiaForcedSource").db
       ELSE d3

\* store() has returned from a replay: the call before it had the same
\* arguments and either returned or was cut short by a driver error
Replayed ==
    /\ pc = "idle"
    /\ outcome = "ok"
    /\ nstores >= 2
    /\ prev.args = call.args
    /\ prev.outcome \in {"ok", "driver_error"}

\* The replay leaves every table as one successful call would have
ReplaySameAsOneCall == Replayed => db = FullStore(cfg, prev.snap, call.args)

\* C7: store() is idempotent under replay: after a second call with the
\* same arguments every table is as one successful call leaves it, and
\* DiaObjectLast holds exactly one row per diaObjectId of the catalog.
C7_ReplayIdempotent ==
    Replayed =>
        /\ db = FullStore(cfg, prev.snap, call.args)
        /\ \A id \in DOMAIN Written(call.objects, 0) : LastRowsOf(id) = 1

\* C1: for a region that covers every stored DiaObject, getDiaObjects
\* returns exactly one row per stored diaObjectId, the version of the most
\* recent store of that id, and no other row.
C1_RoundTrip ==
    (ret.op = "getDiaObjects" /\ ret.args.region = AllSky) =>
        /\ ret.result.kind = "frame"
        /\ BagSize(ret.result.rows) = Cardinality(DOMAIN last)
        /\ \A id \in DOMAIN last :
              \E r \in DOMAIN ret.result.rows :
                 /\ r.diaObjectId = id
                 /\ r.ra = last[id].ra
                 /\ r.decl = last[id].decl
                 /\ r.lastNonForcedSource = last[id].visit_time * MillisPerSecond

\* A read of sources or forced sources has returned
SourceRead == ret.op \in {"getDiaSources", "getDiaForcedSources"}

ReadTable == IF ret.op = "getDiaSources" THEN "DiaSource" ELSE "DiaForcedSource"

ReadMonths ==
    IF ret.op = "getDiaSources" THEN cfg.read_sources_months
    ELSE cfg.read_forced_sources_months

WindowStart == ret.args.visit_time - ReadMonths * DaysPerMonth * SECONDS_IN_DAY

\* Time partition a stored row went to: that of the visit that stored it
CellPart(x) ==
    IF cfg.time_partition_tables
    THEN CHOOSE p \in TimeParts :
            x.table = tableName(cfg, ReadTable) \o "_" \o ToString(p)
    ELSE x.row.apdb_time_part

\* Stored rows of the table read that lie in the region, belong to the
\* objects asked for and are younger than the start of the window; with
\* `planned`, only those in the time partitions of the window
WindowCells(planned) ==
    {x \in DOMAIN db :
        /\ x.table \in PhysicalTables(cfg, ReadTable)
        /\ x.row.apdb_part \in PartitionerPixels(ret.args.region)
        /\ ret.args.object_ids.given => x.row.diaObjectId \in ret.args.object_ids.ids
        /\ x.row.midPointTai > WindowStart
        /\ planned => /\ CellPart(x) >= TimePartition(cfg, WindowStart)
                      /\ CellPart(x) <= TimePartition(cfg, ret.args.visit_time)}

RowsOfCells(S) ==
    [r \in {x.row : x \in S} |->
        BagSize(BagFilter(db, LAMBDA x : x \in S /\ x.row = r))]

C4_ZeroMonthsAbsent ==
    (SourceRead /\ ReadMonths = 0) =>
        /\ ret.result.kind = "absent"
        /\ ret.result.nq = 0

\* C4 witness: a read with an empty id list and no window, on a table
\* that holds rows
C4_Witness ==
    /\ ret.op = "getDiaSources"
    /\ cfg.read_sources_months = 0
    /\ ret.args.object_ids = Ids({})
    /\ ret.result.kind = "absent"
    /\ DOMAIN LogicalRows(cfg, db, "DiaSource") # {}

C11_SourcePartPropagated ==
    \A t \in {"DiaSource", "DiaForcedSource"} :
        \A x \in VisibleWrites(t) :
            IF x.row.diaObjectId = 0
            THEN "ra" \in DOMAIN x.row /\ x.row.apdb_part = Pixel(x.row.ra, x.row.decl)
            ELSE \E o \in call.objects.rows :
                    /\ o.diaObjectId = x.row.diaObjectId
                    /\ x.row.apdb_part = o.apdb_part
                    /\ o.apdb_part = Pixel(o.ra, o.decl)

\* C11 witness: a source has been written whose own position lies in
\* another pixel than its DiaObject
C11_Witness ==
    \E x \in VisibleWrites("DiaSource") :
        /\ x.row.diaObjectId # 0
        /\ Pixel(x.row.ra, x.row.decl) # x.row.apdb_part

----------------------------------------------------------------------------
(* _time_partition as a function of time: the specification applies it to
   pairs of times on both sides of the epoch, with and without a fractional
   day part *)

\* Offsets within a partition, in seconds: whole days and fractions of a day
DayOffsets == {-SECONDS_IN_DAY - 1, -SECONDS_IN_DAY, -1, 0, 1,
               SECONDS_IN_DAY \div 2, SECONDS_IN_DAY}

\* Times in seconds since the epoch, around the partition boundaries
Times ==
    {k * DefaultTimePartitionDays * SECONDS_IN_DAY + o : k \in -1..1, o \in DayOffsets}

\* _time_partition applied to two times
TimePartitionCall ==
    /\ pc = "idle"
    /\ ret = NoRet
    /\ \E t1 \in Times, t2 \in Times :
        ret' = Returned("_time_partition", [t1 |-> t1, t2 |-> t2],
                        <<TimePartition(cfg, t1), TimePartition(cfg, t2)>>)
    /\ UNCHANGED <<cfg, db, pc, call, outcome, driver, snap, prev, nstores, last, versions, created, exec>>

NextTime == TimePartitionCall

SpecTime == Init /\ [][NextTime]_vars

\* floor((mjd(t) - epoch_mjd) / time_partition_days), t in seconds since the epoch
FloorPartition(c, secs) == secs \div (c.time_partition_days * SECONDS_IN_DAY)

\* C12: time_partition(t) is floor((mjd(t) - epoch_mjd) / time_partition_days)
\* for every time t, fractional days and times before the epoch included.
C12_TimePartitionIsFloor ==
    ret.op = "_time_partition" =>
        ret.result[1] = FloorPartition(cfg, ret.args.t1)

\* C13: time_partition is monotone: t1 <= t2 implies
\* time_partition(t1) <= time_partition(t2).
C13_TimePartitionMonotone ==
    (ret.op = "_time_partition" /\ ret.args.t1 <= ret.args.t2) =>
        ret.result[1] <= ret.result[2]

C13_Witness ==
    /\ ret.op = "_time_partition"
    /\ ret.args.t1 < 0
    /\ ret.args.t2 > 0
    /\ ret.args.t1 % SECONDS_IN_DAY # 0
    /\ ret.result[1] < ret.result[2]

----------------------------------------------------------------------------
(* makeSchema, and the operations on a keyspace whose tables it created *)

\* ApdbCassandraSchema.visitTableName
visitTableName(c) == c.prefix \o "ApdbProtoVisits"

\* ApdbCassandra.makeSchema: the partition range it computes from the
\* configured start and end times
PartRange(c) ==
    << TimePartition(c, c.time_partition_start),
       TimePartition(c, c.time_partition_end) + 1 >>

\* ApdbCassandraSchema.makeSchema: the partitions of the per-partition
\* tables, from the start time written in the method
SchemaPartitions(c) ==
    LET start    == SchemaStartDay * SECONDS_IN_DAY
        seconds1 == start + SchemaUnitsAfter * 30 * SECONDS_IN_DAY
        seconds0 == start - SchemaUnitsBefore * 30 * SECONDS_IN_DAY
        part0    == seconds0 \div (c.time_partition_days * SECONDS_IN_DAY)
        part1    == seconds1 \div (c.time_partition_days * SECONDS_IN_DAY)
    IN part0..part1

\* ApdbCassandraSchema.makeSchema: table_list of one entry of `tables`
TableList(c, table) ==
    LET fullTable == tableName(c, table)
    IN IF c.time_partition_tables /\ table \in {"DiaSource", "DiaForcedSource"}
       THEN {fullTable \o "_" \o ToString(part) : part \in SchemaPartitions(c)}
       ELSE {fullTable}

\* ApdbCassandraSchema._tableColumns returns for the visits table and for
\* the tables of tableSchemas, and raises KeyError for any other name
HasTableColumns(table) == table = "ApdbProtoVisits" \/ table \in LogicalTables

\* list(self.tableSchemas): the tables in the order of the schema file
SchemaOrder == <<"DiaObject", "DiaObjectLast", "DiaSource", "DiaForcedSource">>

\* _tableColumns(table) raises: KeyError for an unknown name, ValueError for
\* a table without partition or primary index
TableColumnsRaises(c, table) ==
    \/ ~HasTableColumns(table)
    \/ table \in LogicalTables /\ MissingIndex(c, table)

\* DROP TABLE IF EXISTS of a list of tables: the tables and their rows go
DropTables(tabs, d, table_list) ==
    [tables |-> tabs \ table_list,
     db     |-> BagFilter(d, LAMBDA x : x.table \notin table_list)]

\* ApdbCassandraSchema.makeSchema, the loop over `tables` from the table
\* at the head of todo on.  For each table: DROP TABLE IF EXISTS of its
\* table_list when drop, then the CREATE TABLE statements (IF NOT EXISTS
\* when not drop) are built with the columns of _tableColumns, which may
\* raise, and executed.  st has the tables and rows so far and the names
\* addressed.
RECURSIVE MakeTables(_, _, _, _)
MakeTables(c, st, drop, todo) ==
    IF todo = <<>> THEN st
    ELSE LET table_list == TableList(c, Head(todo))
             dropped    == IF drop THEN DropTables(st.tables, st.db, table_list)
                           ELSE [tables |-> st.tables, db |-> st.db]
             used       == st.used \cup table_list
         IN IF TableColumnsRaises(c, Head(todo))
            THEN [ok |-> FALSE, tables |-> dropped.tables,
                  db |-> dropped.db, used |-> used]
            ELSE MakeTables(c, [ok |-> TRUE,
                                tables |-> dropped.tables \cup table_list,
                                db |-> dropped.db, used |-> used],
                            drop, Tail(todo))

\* ApdbCassandraSchema.makeSchema: the tables of tableSchemas, then the
\* visits table.  The result has the tables and rows afterwards, and the
\* names addressed.
schemaMakeSchema(c, tabs, d, drop) ==
    MakeTables(c, [ok |-> TRUE, tables |-> tabs, db |-> d, used |-> {}], drop,
               SchemaOrder \o <<visitTableName(c)>>)

\* ApdbCassandra.makeSchema
MakeSchema ==
    /\ pc = "idle"
    /\ \E drop \in BOOLEAN :
        LET r == schemaMakeSchema(cfg, created, db, drop)
        IN /\ created' = r.tables
           /\ db' = r.db
           /\ ret' = [op |-> "makeSchema", args |-> [drop |-> drop],
                      result |-> r.ok, used |-> r.used,
                      before |-> [created |-> created, db |-> db,
                                  again |-> ret.op = "makeSchema" /\ ~ret.args.drop]]
    /\ UNCHANGED <<cfg, pc, call, outcome, driver, snap, prev, nstores, last, versions, exec>>

NextSchema ==
    \/ MakeSchema
    \/ StoreBegin(GoodVisits, MaxStores)
    \/ StoreDiaObjectLast
    \/ StoreDiaObject
    \/ StoreDiaSources
    \/ StoreDiaForcedSources
    \/ StoreMissingTable
    \/ GetDiaObjects
    \/ GetDiaSources
    \/ GetDiaForcedSources

SpecSchema == InitSchema /\ [][NextSchema]_vars

\* A store() has just ended
StoreEnded == pc = "idle" /\ ret = NoRet /\ outcome \notin {"none", "running"}

ProbeParts(c) == (PartRange(c)[1] - 3)..(PartRange(c)[2] + 3)

\* C15: in time-partition-tables mode, after makeSchema the tables DiaSource_N
\* and DiaForcedSource_N exist for every N from time_partition(time_partition_start)
\* to time_partition(time_partition_end) inclusive and for no other N.
C15_PartitionTablesOfRange ==
    (ret.op = "makeSchema" /\ cfg.time_partition_tables) =>
        \A t \in {"DiaSource", "DiaForcedSource"}, N \in ProbeParts(cfg) :
            (tableName(cfg, t) \o "_" \o ToString(N) \in created)
                <=> N \in PartRange(cfg)[1]..(PartRange(cfg)[2] - 1)

\* C16: makeSchema(drop=false) raises no error, and called a second time in
\* a row it leaves the set of tables and every stored row as they were.
C16_MakeSchemaIdempotent ==
    (ret.op = "makeSchema" /\ ~ret.args.drop) =>
        /\ ret.result
        /\ ret.before.again => (created = ret.before.created /\ db = ret.before.db)

\* prefix + logical table name, followed by _<part> in time-partition-tables mode
PrefixedNames(c) ==
    LET base == {tableName(c, t) : t \in LogicalTables \cup {"ApdbProtoVisits"}}
    IN base \cup
       IF c.time_partition_tables
       THEN {b \o "_" \o ToString(p) : b \in base, p \in TimeParts \cup ProbeParts(c)}
       ELSE {}

\* Tables of the statements of the read that has just returned
ReadStatementTables ==
    LET statements ==
            IF ret.op = "getDiaObjects" THEN ObjectStatements(cfg, ret.args.region)
            ELSE SourceStatements(cfg, ret.args.region, WindowStart,
                                  ret.args.visit_time, ReadTable)
    IN {statements[i].table : i \in 1..Len(statements)}

\* C17: every table name used by makeSchema, by store() and by the reads is
\* the prefix, once, followed by the logical table name (and _<part>), and
\* getDiaObjects reads the DiaObjectLast table that store() writes.
C17_PrefixAppliedOnce ==
    /\ \A x \in BagToSet(db) : x.table \in PrefixedNames(cfg)
    /\ ret.op = "makeSchema" => ret.used \subseteq PrefixedNames(cfg)
    /\ ret.op \in {"getDiaObjects", "getDiaSources", "getDiaForcedSources"} =>
            ReadStatementTables \subseteq PrefixedNames(cfg)
    /\ ret.op = "getDiaObjects" =>
            ReadStatementTables \subseteq {StepTable(cfg, call, "DiaObjectLast")}

----------------------------------------------------------------------------
(* _run_queries step by step: the driver's execute_concurrent sends the
   statements of one read, the queries complete in any order, and the loop
   of _run_queries takes the results in the order of the statements *)

\* execute_concurrent with the number of statements as its concurrency
ConcurrencyArgAll(c, n) == n

\* _run_queries: the concurrency argument it gives execute_concurrent
ConcurrencyArg(c, n) == c.read_concurrency

Min(a, b) == IF a <= b THEN a ELSE b

\* Queries sent and not yet completed
InFlight == exec.sent \ exec.done

\* _run_queries is entered with n statements: execute_concurrent sends the
\* first `concurrency` of them and hands back the generator of the results
RunQueriesBegin ==
    /\ pc = "idle"
    /\ exec.state = "none"
    /\ \E n \in 0..MaxPlan :
        exec' = [NoExec EXCEPT !.state = "iterating", !.n = n,
                               !.sent = 1..Min(ConcurrencyArg(cfg, n), n)]
    /\ UNCHANGED <<cfg, db, pc, call, outcome, driver, snap, prev, nstores, ret, last, versions, created>>

\* A query in flight completes, with rows or with an error; the driver's
\* callback queues its result and sends the next statement, if one is left
QueryCompletes ==
    /\ \E i \in InFlight, success \in BOOLEAN :
        exec' = [exec EXCEPT
                    !.done = @ \cup {i},
                    !.failed = IF success THEN @ ELSE @ \cup {i},
                    !.sent = IF Cardinality(@) < exec.n
                             THEN @ \cup {Cardinality(@) + 1} ELSE @]
    /\ UNCHANGED <<cfg, db, pc, call, outcome, driver, snap, prev, nstores, ret, last, versions, created>>

\* One turn of the loop `for success, result in results`: the generator
\* yields the result of the next statement once it has completed.  A failed
\* result ends the loop: `raise result`, and with pandas_delay_conv already
\* the expression result._current_rows that precedes the test of `success`
\* raises, as an exception has no such attribute.
ConsumeResult ==
    /\ exec.state = "iterating"
    /\ exec.current < exec.n
    /\ exec.current + 1 \in exec.done
    /\ exec' = [exec EXCEPT
                    !.current = @ + 1,
                    !.state = IF exec.current + 1 \in exec.failed
                              THEN "raised" ELSE @,
                    !.error = IF exec.current + 1 \notin exec.failed THEN @
                              ELSE IF cfg.pandas_delay_conv THEN "AttributeError"
                              ELSE "query_error"]
    /\ UNCHANGED <<cfg, db, pc, call, outcome, driver, snap, prev, nstores, ret, last, versions, created>>

\* The loop ends after the last result: _rows_to_pandas of the collected
\* rows, or the single frame, or pandas.concat of the frames, which raises
\* ValueError for an empty list
RunQueriesReturn ==
    /\ exec.state = "iterating"
    /\ exec.current = exec.n
    /\ exec' = IF ~cfg.pandas_delay_conv /\ exec.n = 0
               THEN [exec EXCEPT !.state = "raised", !.error = "ValueError"]
               ELSE [exec EXCEPT !.state = "returned"]
    /\ UNCHANGED <<cfg, db, pc, call, outcome, driver, snap, prev, nstores, ret, last, versions, created>>

NextExec ==
    \/ RunQueriesBegin
    \/ QueryCompletes
    \/ ConsumeResult
    \/ RunQueriesReturn

\* Every query sent completes in the end, with rows or with an error, and
\* the thread that called _run_queries keeps running
SpecExec ==
    /\ Init
    /\ [][NextExec]_vars
    /\ WF_vars(QueryCompletes)
    /\ WF_vars(ConsumeResult)
    /\ WF_vars(RunQueriesReturn)

\* C18: when queries of a read fail, _run_queries raises only after it has
\* taken the results of all the statements from the generator.
C18_ErrorAfterDraining ==
    (exec.state = "raised" /\ exec.failed # {}) => exec.current = exec.n

\* C19: at every moment of a read at most read_concurrency queries are sent
\* and not yet completed, and every planned query is sent in the end.
C19_BoundedInFlight ==
    /\ [](Cardinality(InFlight) <= cfg.read_concurrency)
    /\ \A n \in 0..MaxPlan :
          (exec.state # "none" /\ exec.n = n) ~> (exec.sent = 1..n)

C19_Witness ==
    /\ Cardinality(InFlight) = cfg.read_concurrency
    /\ exec.done # {}
    /\ 1 \in InFlight
    /\ Cardinality(exec.sent) < exec.n

\* The read that has just returned was given a region of no pixel
EmptyRegionRead ==
    /\ ret.op \in {"getDiaObjects", "getDiaSources", "getDiaForcedSources"}
    /\ PartitionerPixels(ret.args.region) = {}
    /\ ret.result.kind # "absent"

\* C20: for a region that maps to an empty pixel set every read plans zero
\* statements and returns an empty frame, it does not raise, whatever
\* query_per_spatial_part and pandas_delay_conv are.
C20_EmptyRegionEmptyFrame ==
    EmptyRegionRead =>
        /\ ret.result.kind = "frame"
        /\ ret.result.rows = EmptyBag
        /\ ret.result.nq = 0

----------------------------------------------------------------------------
(* The plan of a source read *)

\* The source read that has just returned went through the planner
PlannedRead == SourceRead /\ ReadMonths > 0 /\ ret.args.object_ids # Ids({})

\* The statements of the source read that has just returned
ReadStatements ==
    SourceStatements(cfg, ret.args.region, WindowStart, ret.args.visit_time, ReadTable)

\* Time partitions of the window of the read
WindowParts ==
    TimePartition(cfg, WindowStart)..TimePartition(cfg, ret.args.visit_time)

\* C21: a source read has exactly one statement per combination of table,
\* spatial predicate and temporal predicate, each on apdb_part: per-partition
\* tables <base>_<p> for the partitions of the window and no apdb_time_part
\* predicate in time-partition-tables mode, else one table and one equality
\* per partition (query_per_time_part) or one IN list.
C21_PlanIsCrossProduct ==
    PlannedRead =>
        LET base     == tableName(cfg, ReadTable)
            pixels   == PartitionerPixels(ret.args.region)
            xtables  == IF cfg.time_partition_tables
                        THEN {base \o "_" \o ToString(p) : p \in WindowParts}
                        ELSE {base}
            xspatial == IF cfg.query_per_spatial_part
                        THEN {{p} : p \in pixels} ELSE {pixels}
            xtime    == IF cfg.time_partition_tables THEN {None}
                        ELSE IF cfg.query_per_time_part
                        THEN {Some({p}) : p \in WindowParts}
                        ELSE {Some(WindowParts)}
            stmts    == ReadStatements
        IN /\ {<<stmts[i].table, stmts[i].parts, stmts[i].tparts>> : i \in 1..Len(stmts)}
                = xtables \X xspatial \X xtime
           /\ Len(stmts) = Cardinality(xtables) * Cardinality(xspatial) * Cardinality(xtime)
           /\ \A i \in 1..Len(stmts) : stmts[i].logical = ReadTable

C21_Witness ==
    /\ PlannedRead
    /\ ~cfg.time_partition_tables
    /\ cfg.query_per_time_part /\ cfg.query_per_spatial_part
    /\ Len(ReadStatements) = 4
    /\ ret.result.kind = "frame"
    /\ ret.result.rows # EmptyBag

----------------------------------------------------------------------------
(* _spatial_where with use_ranges, as a function of the region and of
   part_pix_max_ranges *)

\* Right ascensions of the positions of the regions: pixels 0 to 4
RangePositions == {<<2 * i, 0>> : i \in 0..4}

\* Values of part_pix_max_ranges: envelopes coarsened and not
MaxRangesChoices == {1, 2, DefaultMaxRanges}

\* Partitioner.envelope
PartitionerEnvelope(c, region) == PixelatorEnvelope(region, c.part_pix_max_ranges)

\* A predicate on apdb_part: an equality, or lo <= apdb_part AND apdb_part <= hi
PartPredicate(lo, hi) ==
    [kind |-> IF lo = hi THEN "=" ELSE "range", lo |-> lo, hi |-> hi]

\* The apdb_part values a predicate admits
Selects(p) == p.lo..p.hi

\* _spatial_where with use_ranges and without `upper -= 1`
SpatialWhereRangesInclusive(c, region) ==
    LET pixel_ranges == PartitionerEnvelope(c, region)
        lowers == SortedSeq({r[1] : r \in pixel_ranges})
    IN [i \in 1..Len(lowers) |->
          LET r == CHOOSE x \in pixel_ranges : x[1] = lowers[i]
          IN PartPredicate(r[1], r[2])]

\* ApdbCassandra._spatial_where with use_ranges: one expression per range
\* (lower, upper) of the envelope, on lower .. upper - 1
SpatialWhereRanges(c, region) ==
    LET pixel_ranges == PartitionerEnvelope(c, region)
        lowers == SortedSeq({r[1] : r \in pixel_ranges})
    IN [i \in 1..Len(lowers) |->
          LET r == CHOOSE x \in pixel_ranges : x[1] = lowers[i]
          IN PartPredicate(r[1], r[2] - 1)]

\* The configurations, with each of the values of part_pix_max_ranges
RangeConfigs ==
    {[c EXCEPT !.part_pix_max_ranges = m] : c \in Configs, m \in MaxRangesChoices}

InitRanges ==
    /\ cfg \in RangeConfigs
    /\ Fresh
    /\ created = KeyspaceTables(cfg)

SpatialWhereRangesCall ==
    /\ pc = "idle"
    /\ ret = NoRet
    /\ \E region \in SUBSET RangePositions :
        ret' = Returned("_spatial_where", [region |-> region, use_ranges |-> TRUE],
                        SpatialWhereRanges(cfg, region))
    /\ UNCHANGED <<cfg, db, pc, call, outcome, driver, snap, prev, nstores, last, versions, created, exec>>

NextRanges == SpatialWhereRangesCall

SpecRanges == InitRanges /\ [][NextRanges]_vars

\* Pixels of the ranges of an envelope, the upper ends included or not
RangePixels(ranges, inclusive) ==
    UNION {r[1]..(IF inclusive THEN r[2] ELSE r[2] - 1) : r \in ranges}

\* Pixels the predicates of the last _spatial_where admit
SelectedPixels == UNION {Selects(ret.result[i]) : i \in 1..Len(ret.result)}

----------------------------------------------------------------------------
(* _run_queries on the answers of any plan: the answers of the statements
   are drawn from a small set, with column lists that agree or differ *)

MaxQueries == 3

AnswerColumns == {{"diaObjectId", "apdb_part"}, {"diaObjectId"}}

AnswerRows ==
    {EmptyBag,
     SetToBag({[diaObjectId |-> 1]}),
     SetToBag({[diaObjectId |-> 1]}) (+) SetToBag({[diaObjectId |-> 2]})}

\* What one query of a read can answer: column names and rows, or an error
Answers ==
    {[ok |-> TRUE, columns |-> cs, rows |-> rs] :
        cs \in AnswerColumns, rs \in AnswerRows}
    \cup {[ok |-> FALSE, columns |-> {}, rows |-> EmptyBag]}

RunQueriesCall ==
    /\ pc = "idle"
    /\ ret = NoRet
    /\ \E n \in 0..MaxQueries : \E results \in [1..n -> Answers] :
        ret' = Returned("_run_queries", [results |-> results],
                        RunQueries(cfg, results))
    /\ UNCHANGED <<cfg, db, pc, call, outcome, driver, snap, prev, nstores, last, versions, created, exec>>

NextAssemble == RunQueriesCall

SpecAssemble == Init /\ [][NextAssemble]_vars

Assembled == ret.op = "_run_queries"

SuccessfulAnswers == {i \in DOMAIN ret.args.results : ret.args.results[i].ok}

ColumnsDiffer ==
    \E i, j \in SuccessfulAnswers :
        ret.args.results[i].columns # ret.args.results[j].columns

ConcatenatedRows ==
    BagSum([i \in DOMAIN ret.args.results |-> ret.args.results[i].rows])

\* C23: with pandas_delay_conv, a read in which two successful queries
\* answer with different column names raises and returns no frame; a read
\* whose queries all succeed with the same column names returns a frame
\* with those columns whose rows are the rows of all the queries, each one
\* once.
C23_DelayedAssembly ==
    (Assembled /\ cfg.pandas_delay_conv) =>
        /\ ColumnsDiffer => ret.result.kind = "error"
        /\ (/\ ret.args.results # <<>>
            /\ SuccessfulAnswers = DOMAIN ret.args.results
            /\ ~ColumnsDiffer) =>
                /\ ret.result.kind = "frame"
                /\ ret.result.columns = ret.args.results[1].columns
                /\ ret.result.rows = ConcatenatedRows

C23_Witness ==
    /\ Assembled
    /\ cfg.pandas_delay_conv
    /\ Len(ret.args.results) = MaxQueries
    /\ SuccessfulAnswers = DOMAIN ret.args.results
    /\ ~ColumnsDiffer
    /\ \A i \in DOMAIN ret.args.results : ret.args.results[i].rows # EmptyBag
    /\ ret.result.kind = "frame"
    /\ BagCardinality(ret.result.rows) > MaxQueries

\* The configuration with the other way of assembling the frame
OtherAssembly(c) == [c EXCEPT !.pandas_delay_conv = ~@]

SameOutcome(a, b) ==
    /\ a.kind = b.kind
    /\ a.kind = "frame" => (a.columns = b.columns /\ a.rows = b.rows)

\* C24: for the same plan and the same answers of its queries, a plan of no
\* or one statement included, _run_queries gives the same columns and the
\* same rows with pandas_delay_conv and without it, and raises in the same
\* cases.
C24_AssemblyModesEquivalent ==
    Assembled =>
        SameOutcome(ret.result,
                    RunQueries(OtherAssembly(cfg), ret.args.results))

----------------------------------------------------------------------------
(* The DiaObject history over several visits, among them visits less than a
   second apart *)

MaxHistoryStores == 2

HalfSecond == 500000

\* A DiaObject catalog that comes with values in the columns store() sets
StampedObjects ==
    WithColumn(WithColumn(makeObjectCatalog([i \in {1} |-> 1]),
                          "lastNonForcedSource", 7), "validityStart", 9)

\* Visits of the history specification: objects alone, at every placement,
\* at the visit times and half a second after the last of them, one visit
\* with sources and forced sources, and a catalog that carries the columns
\* store() sets
HistoryVisits ==
    LET at(vt) == {Visit(vt, makeObjectCatalog(p), NoCatalog, NoCatalog) :
                      p \in Placements}
    IN UNION {at(vt) : vt \in StoreTimes}
       \cup {VisitAt(v, HalfSecond) : v \in at(VisitTimes[3])}
       \cup {FullVisit(VisitTimes[2])}
       \cup {VisitAt(Visit(VisitTimes[3], StampedObjects, NoCatalog, NoCatalog), us) :
                us \in {0, HalfSecond}}

NextHistory == Store(HistoryVisits, MaxHistoryStores)

SpecHistory == Init /\ [][NextHistory]_vars

\* Number of rows of the DiaObject tables that carry a diaObjectId
HistoryRowsOf(id) ==
    BagSize(BagFilter(db, LAMBDA x : /\ x.table \in PhysicalTables(cfg, "DiaObject")
                                     /\ x.row.diaObjectId = id))

\* The visit times at which DiaObject inserts of a diaObjectId were executed
VersionsOf(id) == {x \in DOMAIN versions : x.diaObjectId = id}

\* C25: the DiaObject history is append-only: when the DiaObject inserts
\* executed for a diaObjectId were made at n distinct visit times, one per
\* visit time, the DiaObject tables hold n rows for that id.
C25_HistoryAppendOnly ==
    \A id \in ObjectIds :
        (\A x \in VersionsOf(id) : versions[x] = 1) =>
            HistoryRowsOf(id) = Cardinality(VersionsOf(id))

\* The same for the visit times that are whole seconds
WholeSecondHistory ==
    \A id \in ObjectIds :
        (\A x \in VersionsOf(id) : versions[x] = 1 /\ x.visit_time.us = 0) =>
            HistoryRowsOf(id) = Cardinality(VersionsOf(id))

\* A datetime in milliseconds since 1970-01-01
EpochMillis(dt) == dt.v * MillisPerSecond + dt.us \div MillisPerSecond

\* The last store() has written all its tables
StoreDone == pc = "idle" /\ outcome = "ok"

\* The rows of DiaObjectLast / DiaObject of the objects of the last store()
\* carry `stamp` in the columns store() sets
Stamped(stamp) ==
    \A o \in call.objects.rows :
        /\ \A r \in DOMAIN LogicalRows(cfg, db, "DiaObjectLast") :
              (r.diaObjectId = o.diaObjectId /\ r.apdb_part = o.apdb_part) =>
                  r.lastNonForcedSource = stamp
        /\ \E r \in DOMAIN LogicalRows(cfg, db, "DiaObject") :
              /\ r.diaObjectId = o.diaObjectId
              /\ r.apdb_part = o.apdb_part
              /\ r.validityStart = stamp
              /\ r.lastNonForcedSource = stamp

\* C26: after a store() the DiaObjectLast rows of its objects have
\* lastNonForcedSource = visit_time and their DiaObject rows of the visit
\* have validityStart = lastNonForcedSource = visit_time, whatever the
\* catalog carried in columns of those names.
C26_ExtraColumnsAreVisitTime ==
    StoreDone => Stamped(EpochMillis(call.visit_time_dt))

\* The same with the visit time cut to its whole second
ExtraColumnsAreWholeSecond ==
    StoreDone => Stamped(call.visit_time * MillisPerSecond)

----------------------------------------------------------------------------
(* Schema files whose index entries are not one PARTITION and one PRIMARY *)

\* Index entries a schema file can list for a table: the standard ones, one
\* of the two missing, one of the two given twice
IndexLists(c, t) ==
    LET part  == [type |-> "PARTITION", columns |-> TableIndices(c, t).PARTITION]
        clust == [type |-> "PRIMARY", columns |-> TableIndices(c, t).PRIMARY]
        other == [type |-> "PARTITION", columns |-> {"diaObjectId"}]
        more  == [type |-> "PRIMARY", columns |-> {"apdb_part"}]
    IN { <<part, clust>>, <<clust>>, <<part>>,
         <<part, other, clust>>, <<part, clust, more>> }

SchemaFiles(c) ==
    UNION {{[table |-> t, indices |-> l] : l \in IndexLists(c, t)} :
              t \in LogicalTables}

\* ApdbCassandra.__init__ with any of the schema files: the constructor of
\* the schema object does not look at the indices
InitLoad ==
    /\ cfg \in UNION {{[c EXCEPT !.schema_file = f] : f \in SchemaFiles(c)} :
                        c \in Configs}
    /\ Fresh
    /\ created = {}

NextLoad ==
    \/ MakeSchema
    \/ GetDiaObjects

SpecLoad == InitLoad /\ [][NextLoad]_vars

\* Number of index entries of a type that the schema file has for a table
IndexCount(c, t, type) == Len(IndicesOfType(c, t, type))

\* Some table does not have one PARTITION and one PRIMARY index
Defective(c) ==
    \E t \in LogicalTables :
        IndexCount(c, t, "PARTITION") # 1 \/ IndexCount(c, t, "PRIMARY") # 1

\* C27: an instance whose schema has a table without exactly one PARTITION
\* and one PRIMARY index has issued no DDL and no query: no table was
\* created or dropped and no operation was carried out.
C27_DefectiveSchemaRejectedAtLoad ==
    Defective(cfg) => (created = {} /\ ret = NoRet)

\* A table with a missing index is rejected by makeSchema, after the tables
\* before it; a table with a second index of a type is not rejected
RejectedByMakeSchema ==
    ret.op = "makeSchema" =>
        (ret.result <=> (cfg.prefix = "" /\ \A t \in LogicalTables : ~MissingIndex(cfg, t)))

----------------------------------------------------------------------------
(* Per-partition tables of a configured time range that holds the visits *)

RangeStartDay == -25

RangeEndDay == 30

\* A configuration whose time_partition_start and time_partition_end lie
\* around the visit times
WithTimeRange(c) ==
    [c EXCEPT !.time_partition_start = RangeStartDay * SECONDS_IN_DAY,
              !.time_partition_end = RangeEndDay * SECONDS_IN_DAY]

InitWindow ==
    /\ cfg \in {WithTimeRange(c) : c \in Configs}
    /\ Fresh
    /\ created = {}

SpecWindow == InitWindow /\ [][NextSchema]_vars

InTimeRange(c, visit_time) ==
    c.time_partition_start <= visit_time /\ visit_time <= c.time_partition_end

\* makeSchema has run and has not failed
SchemaMade == created # {} /\ cfg.prefix = ""

\* C28: in time-partition-tables mode, after makeSchema, the table of every
\* insert that a store() with a visit_time within [time_partition_start,
\* time_partition_end] is about to issue is a table that exists.
C28_StoreTablesExist ==
    (/\ cfg.time_partition_tables
     /\ SchemaMade
     /\ pc \in LogicalTables
     /\ StoreTable(cfg, db, call, pc).ok
     /\ InTimeRange(cfg, call.visit_time))
    => TableExists(cfg, StepTable(cfg, call, pc))

\* C29: in time-partition-tables mode, after makeSchema, every table named
\* by the statements of getDiaSources or getDiaForcedSources with a
\* visit_time within [time_partition_start, time_partition_end] exists,
\* also when the history window starts before time_partition_start.
C29_ReadTablesExist ==
    (/\ cfg.time_partition_tables
     /\ SchemaMade
     /\ PlannedRead
     /\ InTimeRange(cfg, ret.args.visit_time))
    => ReadStatementTables \subseteq created

\* The per-partition source tables of the range ApdbCassandra.makeSchema
\* computes from the configuration
ConfiguredRangeTables(c) ==
    {tableName(c, t) \o "_" \o ToString(p) :
        t \in {"DiaSource", "DiaForcedSource"},
        p \in PartRange(c)[1]..(PartRange(c)[2] - 1)}

\* The tables of a read lie in the configured range.  This does not hold:
\* the history window of a visit shortly after time_partition_start
\* begins in a partition before that of time_partition_start.
ReadWithinConfiguredRange ==
    (/\ cfg.time_partition_tables
     /\ PlannedRead
     /\ InTimeRange(cfg, ret.args.visit_time))
    => ReadStatementTables \subseteq ConfiguredRangeTables(cfg)

----------------------------------------------------------------------------
(* The partitions a source read queries against the partitions the rows of
   the last store() went to *)

\* The source catalog of the last store() for the table read
StoredCatalog ==
    IF ReadTable = "DiaSource" THEN call.args.sources ELSE call.args.forced_sources

IdColumn == IF ReadTable = "DiaSource" THEN "diaSourceId" ELSE "diaForcedSourceId"

\* The rows the last store() wrote to the table read, where they are stored
StoredCells ==
    {x \in DOMAIN db :
        /\ x.table = StepTable(cfg, call, ReadTable)
        /\ \E r \in StoredCatalog.rows : r[IdColumn] = x.row[IdColumn]}

\* The statements of the read whose table and apdb_time_part predicate
\* admit a stored row
TimeCover(x) ==
    {i \in 1..Len(ReadStatements) :
        /\ ReadStatements[i].table = x.table
        /\ ReadStatements[i].tparts.some =>
              x.row.apdb_time_part \in ReadStatements[i].tparts.val}

\* The last store() has written its sources at a visit time in the window
\* of the read
StoredInWindow ==
    /\ PlannedRead
    /\ outcome = "ok"
    /\ StoredCatalog.given
    /\ WindowStart < call.visit_time
    /\ call.visit_time <= ret.args.visit_time

\* C30: a source row stored at a visit time s with mjd(t) - 30 months <
\* mjd(s) <= mjd(t) lies in a table and time partition that the statements
\* of the read at t query, and some statement of them admits its apdb_part
\* when the region covers the position of its parent DiaObject.  A read
\* that sends no statement at all (empty pixel set, one statement per
\* pixel) has no partition to compare.
C30_ReadCoversStoredSources ==
    StoredInWindow =>
        \A x \in StoredCells :
            /\ ReadStatements # <<>> => TimeCover(x) # {}
            /\ \A o \in call.objects.rows :
                  (/\ o.diaObjectId = x.row.diaObjectId
                   /\ <<o.ra, o.decl>> \in ret.args.region) =>
                      \E i \in TimeCover(x) :
                          x.row.apdb_part \in ReadStatements[i].parts

C30_Witness ==
    /\ StoredInWindow
    /\ ret.args.region = LeftSky
    /\ Cardinality(StoredCells) = 2
    /\ \E x \in StoredCells : x.row.apdb_part \notin PartitionerPixels(LeftSky)
    /\ ret.result.kind = "frame"
    /\ ret.result.rows # EmptyBag

====
